---- MODULE Spec2Model ----
(***************************************************************************)
(* TimesheetBlock (src/src/plugin.js) and its formatting utility           *)
(* (src/unnamed/part_001, imported as ./utils/timesheet).                  *)
(*                                                                         *)
(* Conventions of the model                                                *)
(*   - a JavaScript value that may be null/undefined is a sequence of      *)
(*     length 0 (null) or 1 (the value): Null, Some(v), Val(o);            *)
(*   - a DOM classList is the set of class names it holds; only the        *)
(*     "hide" class of the three holders matters, so the variable hide is  *)
(*     the set of holders that carry it;                                   *)
(*   - config.regex is the set of texts regex.test accepts;                *)
(*   - a money amount (a JS number with at most 2 decimals, the result of  *)
(*     Math.round(x * 100) / 100) is held as its integer number of cents   *)
(*     and printed by NumberToString as JavaScript prints the quotient.    *)
(***************************************************************************)
EXTENDS Integers, Sequences, FiniteSets, TLC

(***************************************************************************)
(* Bounds of the model.                                                    *)
(***************************************************************************)
\* loadData calls (fetches issued) by one block instance
MaxFetches == 2
\* entries of a response drawn for prepareTableData
MaxEntries == 2
\* the largest minute count, in absolute value, the formatting utility is given
MaxMinutes == 130

(***************************************************************************)
(* Program constants: TimesheetBlock.STATE.                                *)
(***************************************************************************)
EDIT == 0
VIEW == 1
LOADING == 2

Null == <<>>
Some(v) == <<v>>
Val(o) == o[1]

(***************************************************************************)
(* Input domains.                                                          *)
(***************************************************************************)
\* texts of the snippet field / of a paste event
Texts == {"", "http://x", "http://y"}
\* config.regex, as the set of texts it accepts
UrlRegex == {"http://x", "http://y"}
Regexes == {UrlRegex}
\* event.type of a paste event, and the texts event.detail.data can be: the
\* host sends a 'pattern' event only for a text the registered pattern matches
PasteTypes == {"pattern", "tag"}
PasteTexts(type, re) == IF type = "pattern" THEN re ELSE {""}

SavedGrid == << <<"a", "b">>, <<"c", "d">> >>
\* BlockData: { withHeadings, content, snippet: string|null }
BlockData(w, c, s) == [withHeadings |-> w, content |-> c, snippet |-> s]
BlockDatas ==
  UNION { { BlockData(w, <<>>, Null), BlockData(w, SavedGrid, Null),
            BlockData(w, SavedGrid, Some("")), BlockData(w, SavedGrid, Some("http://x")) } :
          w \in BOOLEAN }
\* the data argument of the constructor: undefined or a BlockData
CtorArgs == {Null} \cup { Some(d) : d \in BlockDatas }

(***************************************************************************)
(* utils/timesheet                                                         *)
(***************************************************************************)
\* minutesToHoursMinutes that truncates the quotient to the nearest hour
minutesToHoursMinutesNearest(minutes) ==
  LET hours == (minutes + 30) \div 60
  IN  << hours, minutes - (hours * 60) >>

\* Math.floor(minutes / 60) is \div (floor division); returns [hours, minutes]
minutesToHoursMinutes(minutes) ==
  LET hours == minutes \div 60
  IN  << hours, minutes - (hours * 60) >>

\* minutesToLabel that writes "1 hour" for a single hour
minutesToLabelSingular(minutes) ==
  IF minutes = Null THEN ""
  ELSE IF Val(minutes) = 0 THEN ""
  ELSE LET hm == minutesToHoursMinutes(Val(minutes))
       IN  IF hm[1] = 0 THEN ToString(hm[2]) \o " minutes"
           ELSE IF hm[2] = 0
             THEN ToString(hm[1]) \o (IF hm[1] = 1 THEN " hour" ELSE " hours")
           ELSE ToString(hm[1]) \o "h:" \o ToString(hm[2]) \o "m"

\* minutes is Null (null/undefined) or Some(integer)
minutesToLabel(minutes) ==
  IF minutes = Null THEN ""
  ELSE IF Val(minutes) = 0 THEN ""
  ELSE LET hm == minutesToHoursMinutes(Val(minutes))
       IN  IF hm[1] = 0 THEN ToString(hm[2]) \o " minutes"
           ELSE IF hm[2] = 0 THEN ToString(hm[1]) \o " hours"
           ELSE ToString(hm[1]) \o "h:" \o ToString(hm[2]) \o "m"

(***************************************************************************)
(* prepareTableData                                                        *)
(***************************************************************************)
\* Math.floor in the place of Math.round
MathRoundTruncates(num, den) == num \div den

\* Math.round(num / den) for den > 0: floor(num/den + 1/2)
MathRound(num, den) == (2 * num + den) \div (2 * den)

\* Math.round(minutes * (per_hour / 60) * 100), the amount in cents
BillCents(minutes, per_hour) == MathRound(minutes * per_hour * 100, 60)

\* String(cents / 100) for cents >= 0: no trailing zeros, no "." for integers
NumberToString(cents) ==
  LET w == cents \div 100
      f == cents % 100
  IN  IF f = 0 THEN ToString(w)
      ELSE IF f % 10 = 0 THEN ToString(w) \o "." \o ToString(f \div 10)
      ELSE IF f < 10 THEN ToString(w) \o ".0" \o ToString(f)
      ELSE ToString(w) \o "." \o ToString(f)

\* '$' + response.per_hour: "undefined" when the response has no per_hour
PerHourText(response) ==
  IF response.per_hour = Null THEN "undefined" ELSE ToString(Val(response.per_hour))

\* String(Math.round(minutes * (per_hour / 60) * 100) / 100): NaN without per_hour
BillText(minutes, response) ==
  IF response.per_hour = Null THEN "NaN"
  ELSE NumberToString(BillCents(minutes, Val(response.per_hour)))

HeaderRow == <<"Work Details", "Billable time", "Note", "Billing (/hr)", "Total Billing">>

EntryRow(entry, response) ==
  << entry.story_name, minutesToLabel(Some(entry.minutes_spent)), entry.notes,
     "$" \o PerHourText(response), "$" \o BillText(entry.minutes_spent, response) >>

RECURSIVE SumMinutes(_)
\* response.entries.reduce((accumulator, entry) => accumulator + entry.minutes_spent, 0)
SumMinutes(entries) ==
  IF entries = <<>> THEN 0
  ELSE SumMinutes(SubSeq(entries, 1, Len(entries) - 1)) + entries[Len(entries)].minutes_spent

TotalRow(response) ==
  LET totalMins == SumMinutes(Val(response.entries))
  IN  << "<b>Total</b>", "<b>" \o minutesToLabel(Some(totalMins)) \o "</b>", "", "",
         "<b>$" \o BillText(totalMins, response) \o "</b>" >>

\* prepareTableData that pushes the Total row before the entry rows
prepareTableDataTotalFirst(response) ==
  <<HeaderRow>>
    \o <<TotalRow(response)>>
    \o [i \in 1..Len(Val(response.entries)) |-> EntryRow(Val(response.entries)[i], response)]

\* a prepareTableData that also faults on a response without per_hour
ThrowsWithoutPerHour(response) == response.entries = Null \/ response.per_hour = Null

\* does prepareTableData(response) throw (for..of over undefined entries)
Throws(response) == response.entries = Null

\* defined when ~Throws(response)
prepareTableData(response) ==
  <<HeaderRow>>
    \o [i \in 1..Len(Val(response.entries)) |-> EntryRow(Val(response.entries)[i], response)]
    \o <<TotalRow(response)>>

(***************************************************************************)
(* Remote responses (the parsed JSON body). A missing key is Null.         *)
(***************************************************************************)
Entry(n, m, t) == [story_name |-> n, minutes_spent |-> m, notes |-> t]
Response(es, p) == [entries |-> es, per_hour |-> p]

\* the bodies a fetch of the block can resolve with; the first two are
\* well formed, the third lacks entries, the fourth lacks per_hour
Responses ==
  << Response(Some(<<Entry("A", 60, "x")>>), Some(10)),
     Response(Some(<<Entry("A", 90, "x"), Entry("B", 45, "")>>), Some(7)),
     Response(Null, Some(10)),
     Response(Some(<<Entry("A", 60, "x")>>), Null) >>

WellFormed(response) == response.entries # Null /\ response.per_hour # Null

\* the responses prepareTableData is exercised on alone
Minutes == {0, 1, 2, 45, 60, 90}
PerHours == {0, 1, 7, 10}
Entries == { Entry(n, m, t) : n \in {"A"}, m \in Minutes, t \in {"", "x"} }
EntryLists == UNION { [1..n -> Entries] : n \in 0..MaxEntries }
TableResponses == { Response(Some(es), Some(p)) : es \in EntryLists, p \in PerHours }

(***************************************************************************)
(* Table view (./table): the grid of cells filled from data.content, the   *)
(* headings setting last passed to it, and whether it was destroyed.       *)
(***************************************************************************)
NoTable == [id |-> 0, content |-> <<>>, headings |-> Null, destroyed |-> FALSE]
Table(id, d) == [id |-> id, content |-> d.content, headings |-> Null, destroyed |-> FALSE]
setHeadingsSetting(t, withHeadings) == [t EXCEPT !.headings = Some(withHeadings)]
getData(t) == t.content
tableDestroy(t) == [t EXCEPT !.destroyed = TRUE]

(***************************************************************************)
(* State                                                                   *)
(***************************************************************************)
VARIABLES
  pc,         \* "constructed" (constructor returned) or "rendered" (render returned)
  arg,        \* the data the constructor was given
  readOnly,   \* this.readOnly
  regex,      \* this.regex
  data,       \* this.data
  table,      \* this.table
  tables,     \* Table views constructed by this block so far
  hide,       \* the holders whose classList has CSS.hide
  textInput,  \* nodes.textInput.textContent
  inflight,   \* fetches issued and not yet settled: [id, url]
  issued,     \* fetches issued by this block
  logged,     \* console.error calls of this block
  saved,      \* what the last operation returned, when it was save()
  destroyed,  \* destroy() was called
  lastLoad,   \* the text of the last event that called loadData
  triggers,   \* matching input events and 'pattern' paste events so far
  lastOp,     \* the operation that ran last
  response,   \* a response prepareTableData is applied to alone
  tableData,  \* its result
  minutes,    \* an argument the formatting utility is applied to alone
  hoursMinutes, \* the result of minutesToHoursMinutes(minutes)
  label       \* the result of minutesToLabel(minutes)

vars == << pc, arg, readOnly, regex, data, table, tables, hide, textInput, inflight,
           issued, logged, saved, destroyed, lastLoad, triggers, lastOp, response, tableData,
           minutes, hoursMinutes, label >>
blockVars == << pc, arg, readOnly, regex, data, table, tables, hide, textInput, inflight,
                issued, logged, saved, destroyed, lastLoad, triggers, lastOp >>

utilVars == << minutes, hoursMinutes, label >>

Holders == {"inputHolder", "tableHolder", "loadingHolder"}
Op(name, text, fid, rix) == [op |-> name, text |-> text, fid |-> fid, rix |-> rix]

\* the holders shown (without the hide class)
Shown == Holders \ hide
InEdit == Shown = {"inputHolder"}
InView == Shown = {"tableHolder"}
InLoading == Shown = {"loadingHolder"}

(***************************************************************************)
(* constructor, render                                                     *)
(***************************************************************************)
\* JavaScript truthiness of a string|null value
Truthy(s) == s # Null /\ Val(s) # ""

constructor(d) ==
  [ withHeadings |-> IF d # Null /\ Val(d).withHeadings THEN Val(d).withHeadings ELSE FALSE,
    content      |-> IF d # Null THEN Val(d).content ELSE <<>>,
    snippet      |-> IF d # Null /\ Truthy(Val(d).snippet) THEN Val(d).snippet ELSE Null ]

\* changeState whose VIEW case forgets the loading indicator
changeStateKeepsLoader(state, h) ==
  CASE state = EDIT    -> (h \ {"inputHolder"}) \cup {"tableHolder", "loadingHolder"}
    [] state = VIEW    -> (h \ {"tableHolder"}) \cup {"inputHolder"}
    [] state = LOADING -> (h \ {"loadingHolder"}) \cup {"tableHolder", "inputHolder"}
    [] OTHER           -> h

\* changeState whose switch has no LOADING case
changeStateNoLoading(state, h) ==
  CASE state = EDIT    -> (h \ {"inputHolder"}) \cup {"tableHolder", "loadingHolder"}
    [] state = VIEW    -> (h \ {"tableHolder"}) \cup {"inputHolder", "loadingHolder"}
    [] OTHER           -> h

changeState(state, h) ==
  CASE state = EDIT    -> (h \ {"inputHolder"}) \cup {"tableHolder", "loadingHolder"}
    [] state = VIEW    -> (h \ {"tableHolder"}) \cup {"inputHolder", "loadingHolder"}
    [] state = LOADING -> (h \ {"loadingHolder"}) \cup {"tableHolder", "inputHolder"}
    [] OTHER           -> h

show(state, h) == changeState(state, h)

\* the hide classes render() gives the holders it makes: tableHolder and the
\* preloader are made with CSS.hide, inputHolder without
renderedHide == {"tableHolder", "loadingHolder"}

\* this.table as render() leaves it, id being the number of the new view
renderTable(d, id) == setHeadingsSetting(Table(id, d), d.withHeadings)

\* render without its final show(VIEW)
renderHideNoShow(d) == renderedHide

\* the hide classes as render() leaves them: if (this.data.snippet) show(VIEW)
renderHide(d) == IF Truthy(d.snippet) THEN show(VIEW, renderedHide) ELSE renderedHide

Init ==
  /\ pc = "constructed"
  /\ arg \in CtorArgs
  /\ readOnly \in BOOLEAN
  /\ regex \in Regexes
  /\ data = constructor(arg)
  /\ table = NoTable
  /\ tables = 0
  /\ hide = {}
  /\ textInput = ""
  /\ inflight = {}
  /\ issued = 0
  /\ logged = 0
  /\ saved = Null
  /\ destroyed = FALSE
  /\ lastLoad = Null
  /\ triggers = 0
  /\ lastOp = Op("constructor", "", 0, 0)
  /\ response = Responses[1]
  /\ tableData = <<>>
  /\ minutes = Null
  /\ hoursMinutes = Null
  /\ label = Null

render ==
  /\ pc = "constructed"
  /\ pc' = "rendered"
  /\ table' = renderTable(data, tables + 1)
  /\ tables' = tables + 1
  /\ hide' = renderHide(data)
  /\ lastOp' = Op("render", "", 0, 0)
  /\ saved' = Null
  /\ UNCHANGED << arg, readOnly, regex, data, textInput, inflight, issued, logged,
                  destroyed, lastLoad, triggers, response, tableData, utilVars >>

(***************************************************************************)
(* save, settings                                                          *)
(***************************************************************************)
\* save that returns no snippet
saveOfNoSnippet(d, t) ==
  [withHeadings |-> d.withHeadings, content |-> getData(t), snippet |-> Null]

\* what save() returns for this.data = d and this.table = t
saveOf(d, t) ==
  [withHeadings |-> d.withHeadings, content |-> getData(t), snippet |-> d.snippet]

saveResult == saveOf(data, table)

save ==
  /\ pc = "rendered" /\ ~destroyed
  /\ saved' = Some(saveResult)
  /\ lastOp' = Op("save", "", 0, 0)
  /\ UNCHANGED << pc, arg, readOnly, regex, data, table, tables, hide, textInput,
                  inflight, issued, logged, destroyed, lastLoad, triggers, response,
                  tableData, utilVars >>

\* the tunes of renderSettings, by name
Tunes == {"With headings", "Without headings"}

\* the value the tune's setTune writes to data.withHeadings
setTune(tune) == tune = "With headings"

\* toggleTune without its final table.setHeadingsSetting
toggleTuneKeepsTable(tune) ==
  /\ pc = "rendered" /\ ~destroyed
  /\ data' = [data EXCEPT !.withHeadings = setTune(tune)]
  /\ lastOp' = Op("toggleTune", tune, 0, 0)
  /\ saved' = Null
  /\ UNCHANGED << pc, arg, readOnly, regex, table, tables, hide, textInput, inflight,
                  issued, logged, destroyed, lastLoad, triggers, response, tableData,
                  utilVars >>

toggleTune(tune) ==
  /\ pc = "rendered" /\ ~destroyed
  /\ data' = [data EXCEPT !.withHeadings = setTune(tune)]
  /\ table' = setHeadingsSetting(table, setTune(tune))
  /\ lastOp' = Op("toggleTune", tune, 0, 0)
  /\ saved' = Null
  /\ UNCHANGED << pc, arg, readOnly, regex, tables, hide, textInput, inflight, issued,
                  logged, destroyed, lastLoad, triggers, response, tableData, utilVars >>

(***************************************************************************)
(* input event, paste event, loadData                                      *)
(***************************************************************************)
\* fetch(url, ...): one more request in flight
loadData(url) ==
  /\ issued < MaxFetches
  /\ issued' = issued + 1
  /\ inflight' = inflight \cup {[id |-> issued + 1, url |-> url]}

\* the 'input' listener of nodes.textInput, the field's text now being t
inputEvent(t) ==
  /\ pc = "rendered" /\ ~destroyed /\ ~readOnly
  /\ textInput' = t
  /\ IF t \in regex
       THEN /\ data' = [data EXCEPT !.snippet = Some(t)]
            /\ hide' = show(LOADING, hide)
            /\ loadData(t)
            /\ lastLoad' = Some(t)
            /\ triggers' = triggers + 1
       ELSE UNCHANGED << data, hide, inflight, issued, lastLoad, triggers >>
  /\ lastOp' = Op("input", t, 0, 0)
  /\ saved' = Null
  /\ UNCHANGED << pc, arg, readOnly, regex, table, tables, logged, destroyed, response,
                  tableData, utilVars >>

\* onPaste that loads on a paste event of any type
onPasteAnyType(type, t) ==
  /\ pc = "rendered" /\ ~destroyed
  /\ loadData(t)
  /\ IF type = "pattern"
       THEN lastLoad' = Some(t) /\ triggers' = triggers + 1
       ELSE UNCHANGED << lastLoad, triggers >>
  /\ lastOp' = Op("paste:" \o type, t, 0, 0)
  /\ saved' = Null
  /\ UNCHANGED << pc, arg, readOnly, regex, data, table, tables, hide, textInput, logged,
                  destroyed, response, tableData, utilVars >>

\* onPaste(event): event.type is type, event.detail.data is t
onPaste(type, t) ==
  /\ pc = "rendered" /\ ~destroyed
  /\ IF type = "pattern"
       THEN loadData(t) /\ lastLoad' = Some(t) /\ triggers' = triggers + 1
       ELSE UNCHANGED << inflight, issued, lastLoad, triggers >>
  /\ lastOp' = Op("paste:" \o type, t, 0, 0)
  /\ saved' = Null
  /\ UNCHANGED << pc, arg, readOnly, regex, data, table, tables, hide, textInput, logged,
                  destroyed, response, tableData, utilVars >>

(***************************************************************************)
(* The continuations of a fetch                                            *)
(***************************************************************************)
\* embedTable that leaves withHeadings as it was
embedDataKeepsHeadings(d, resp) == [d EXCEPT !.content = prepareTableData(resp)]

\* this.data after embedTable(response) has written content and withHeadings
embedData(d, resp) == [d EXCEPT !.content = prepareTableData(resp), !.withHeadings = TRUE]

\* embedTable(response), for a response prepareTableData does not throw on
embedTable(resp) ==
  /\ data' = embedData(data, resp)
  /\ table' = Table(tables + 1, embedData(data, resp))
  /\ tables' = tables + 1
  /\ hide' = show(VIEW, hide)

\* a catch handler that also forgets the snippet
catchErrorClearsSnippet ==
  /\ logged' = logged + 1
  /\ data' = [data EXCEPT !.snippet = Null]
  /\ UNCHANGED << table, tables, hide >>

\* a catch handler that also returns the block to EDIT
catchErrorShowsEdit ==
  /\ logged' = logged + 1
  /\ hide' = show(EDIT, hide)
  /\ UNCHANGED << data, table, tables >>

\* .catch(error => console.error('Error:', error))
catchError ==
  /\ logged' = logged + 1
  /\ UNCHANGED << data, table, tables, hide >>

\* a success continuation that drops the response of any request but the
\* newest
fetchResolveNewestOnly(f, rix) ==
  /\ f \in inflight
  /\ inflight' = inflight \ {f}
  /\ IF f.id # issued
       THEN UNCHANGED << data, table, tables, hide, logged >>
       ELSE IF Throws(Responses[rix])
       THEN catchError
       ELSE embedTable(Responses[rix]) /\ UNCHANGED logged
  /\ lastOp' = Op("resolve", "", f.id, rix)
  /\ saved' = Null
  /\ UNCHANGED << pc, arg, readOnly, regex, textInput, issued, destroyed, lastLoad,
                  triggers, response, tableData, utilVars >>

\* fetch f resolves and its body parses to Responses[rix]: the .then chain
\* runs embedTable, and what embedTable throws reaches the .catch
fetchResolve(f, rix) ==
  /\ f \in inflight
  /\ inflight' = inflight \ {f}
  /\ IF Throws(Responses[rix])
       THEN catchError
       ELSE embedTable(Responses[rix]) /\ UNCHANGED logged
  /\ lastOp' = Op("resolve", "", f.id, rix)
  /\ saved' = Null
  /\ UNCHANGED << pc, arg, readOnly, regex, textInput, issued, destroyed, lastLoad,
                  triggers, response, tableData, utilVars >>

\* fetch f is rejected, or res.json() rejects: only the .catch runs
fetchReject(f) ==
  /\ f \in inflight
  /\ inflight' = inflight \ {f}
  /\ catchError
  /\ lastOp' = Op("reject", "", f.id, 0)
  /\ saved' = Null
  /\ UNCHANGED << pc, arg, readOnly, regex, textInput, issued, destroyed, lastLoad,
                  triggers, response, tableData, utilVars >>

(***************************************************************************)
(* destroy                                                                 *)
(***************************************************************************)
\* a destroy that also drops the fetches in flight
destroyCancels ==
  /\ pc = "rendered" /\ ~destroyed
  /\ table' = tableDestroy(table)
  /\ destroyed' = TRUE
  /\ inflight' = {}
  /\ lastOp' = Op("destroy", "", 0, 0)
  /\ saved' = Null
  /\ UNCHANGED << pc, arg, readOnly, regex, data, tables, hide, textInput, issued,
                  logged, lastLoad, triggers, response, tableData, utilVars >>

destroy ==
  /\ pc = "rendered" /\ ~destroyed
  /\ table' = tableDestroy(table)
  /\ destroyed' = TRUE
  /\ lastOp' = Op("destroy", "", 0, 0)
  /\ saved' = Null
  /\ UNCHANGED << pc, arg, readOnly, regex, data, tables, hide, textInput, inflight,
                  issued, logged, lastLoad, triggers, response, tableData, utilVars >>

Next ==
  \/ render
  \/ save
  \/ \E tune \in Tunes : toggleTune(tune)
  \/ \E t \in Texts : inputEvent(t)
  \/ \E type \in PasteTypes : \E t \in PasteTexts(type, regex) : onPaste(type, t)
  \/ \E f \in inflight, rix \in DOMAIN Responses : fetchResolve(f, rix)
  \/ \E f \in inflight : fetchReject(f)
  \/ destroy

Spec == Init /\ [][Next]_vars

(***************************************************************************)
(* prepareTableData alone, on every response of TableResponses             *)
(***************************************************************************)
InitTable ==
  /\ pc = "constructed"
  /\ arg = Null
  /\ readOnly = FALSE
  /\ regex = UrlRegex
  /\ data = constructor(Null)
  /\ table = NoTable
  /\ tables = 0
  /\ hide = {}
  /\ textInput = ""
  /\ inflight = {}
  /\ issued = 0
  /\ logged = 0
  /\ saved = Null
  /\ destroyed = FALSE
  /\ lastLoad = Null
  /\ triggers = 0
  /\ lastOp = Op("constructor", "", 0, 0)
  /\ response \in TableResponses
  /\ tableData = <<>>
  /\ minutes = Null
  /\ hoursMinutes = Null
  /\ label = Null

prepareStep ==
  /\ lastOp.op # "prepareTableData"
  /\ tableData' = prepareTableData(response)
  /\ lastOp' = Op("prepareTableData", "", 0, 0)
  /\ UNCHANGED << pc, arg, readOnly, regex, data, table, tables, hide, textInput,
                  inflight, issued, logged, saved, destroyed, lastLoad, triggers,
                  response, utilVars >>

NextTable == prepareStep

SpecTable == InitTable /\ [][NextTable]_vars


(***************************************************************************)
(* The formatting utility alone, on null and on every integer of           *)
(* -MaxMinutes..MaxMinutes                                                 *)
(***************************************************************************)
MinuteArgs == {Null} \cup { Some(m) : m \in (-MaxMinutes)..MaxMinutes }

InitLabel ==
  /\ pc = "constructed"
  /\ arg = Null
  /\ readOnly = FALSE
  /\ regex = UrlRegex
  /\ data = constructor(Null)
  /\ table = NoTable
  /\ tables = 0
  /\ hide = {}
  /\ textInput = ""
  /\ inflight = {}
  /\ issued = 0
  /\ logged = 0
  /\ saved = Null
  /\ destroyed = FALSE
  /\ lastLoad = Null
  /\ triggers = 0
  /\ lastOp = Op("constructor", "", 0, 0)
  /\ response = Responses[1]
  /\ tableData = <<>>
  /\ minutes \in MinuteArgs
  /\ hoursMinutes = Null
  /\ label = Null

hoursMinutesStep ==
  /\ minutes # Null /\ hoursMinutes = Null
  /\ hoursMinutes' = Some(minutesToHoursMinutes(Val(minutes)))
  /\ lastOp' = Op("minutesToHoursMinutes", "", 0, 0)
  /\ UNCHANGED << pc, arg, readOnly, regex, data, table, tables, hide, textInput,
                  inflight, issued, logged, saved, destroyed, lastLoad, triggers,
                  response, tableData, minutes, label >>

labelStep ==
  /\ label = Null
  /\ label' = Some(minutesToLabel(minutes))
  /\ lastOp' = Op("minutesToLabel", "", 0, 0)
  /\ UNCHANGED << pc, arg, readOnly, regex, data, table, tables, hide, textInput,
                  inflight, issued, logged, saved, destroyed, lastLoad, triggers,
                  response, tableData, minutes, hoursMinutes >>

NextLabel == hoursMinutesStep \/ labelStep

SpecLabel == InitLabel /\ [][NextLabel]_vars

(***************************************************************************)
(* Claims                                                                  *)
(***************************************************************************)

\* C1: in every state after render() has returned, exactly one of the three
\* holders (input, table, loading) is without the hide class.
C1_OneRegionVisible == pc = "rendered" => Cardinality(Shown) = 1

\* C1 witness: a second fetch was rejected after a first one had resolved and
\* a new matching input had put the block back in LOADING.
C1_Witness ==
  /\ pc = "rendered" /\ lastOp.op = "reject" /\ lastOp.fid = 2
  /\ tables = 2 /\ InLoading

\* C2 as stated: after constructor and render the block is in VIEW whenever
\* the persisted data has a non-null snippet, and in EDIT otherwise.
C2_Original ==
  lastOp.op = "render" =>
    IF arg # Null /\ Val(arg).snippet # Null THEN InView ELSE InEdit

\* C2 amended: after constructor and render the block is in VIEW whenever the
\* persisted data has a non-null, non-empty snippet, and in EDIT when the data
\* is absent or its snippet is null or the empty string.
C2_InitialRegion ==
  lastOp.op = "render" =>
    IF arg # Null /\ Val(arg).snippet # Null /\ Val(arg).snippet # Some("")
      THEN InView
      ELSE InEdit

\* C2 witness: a block rendered from persisted data whose snippet is "".
C2_Witness ==
  lastOp.op = "render" /\ arg # Null /\ Val(arg).snippet = Some("") /\ InEdit

\* C3: an input event whose text matches the pattern records the text as
\* data.snippet, shows LOADING and issues exactly one fetch, for that text;
\* one whose text does not match changes neither the shown region nor the
\* data nor the fetches in flight.
C3_InputEvent ==
  [][ lastOp'.op = "input" =>
        IF lastOp'.text \in regex
          THEN /\ data' = [data EXCEPT !.snippet = Some(lastOp'.text)]
               /\ InLoading'
               /\ issued' = issued + 1
               /\ inflight' = inflight \cup {[id |-> issued', url |-> lastOp'.text]}
               /\ Cardinality(inflight') = Cardinality(inflight) + 1
          ELSE /\ data' = data
               /\ hide' = hide
               /\ inflight' = inflight /\ issued' = issued ]_vars

\* C3 witness: a matching input event ran while the block showed its table and
\* held another snippet.
C3_Witness ==
  /\ lastOp.op = "input" /\ lastOp.text = "http://y"
  /\ arg # Null /\ Val(arg).snippet = Some("http://x")
  /\ data.snippet = Some("http://y") /\ InLoading
  /\ inflight = {[id |-> 1, url |-> "http://y"]}

\* C4: when a fetch resolves with a well-formed response, data.content is the
\* rows derived from it, data.withHeadings is true, the table view is a new
\* one built from the new data, and the block is in VIEW, whatever it showed
\* before.
C4_FetchSuccess ==
  [][ (lastOp'.op = "resolve" /\ WellFormed(Responses[lastOp'.rix])) =>
        /\ data'.content = prepareTableData(Responses[lastOp'.rix])
        /\ data'.withHeadings = TRUE
        /\ data'.snippet = data.snippet
        /\ tables' = tables + 1
        /\ table' = Table(tables', data')
        /\ table'.id # table.id
        /\ InView' ]_vars

\* C4 witness: the second of two responses arrived while the block showed the
\* table of the first, and replaced it.
C4_Witness ==
  /\ lastOp.op = "resolve" /\ lastOp.rix = 2 /\ lastOp.fid = 1
  /\ tables = 3 /\ table.id = 3 /\ InView
  /\ data.content = prepareTableData(Responses[2])

\* C5: a failed fetch is logged and changes nothing else: the shown region,
\* the data and the table view stay as they were; and a block in LOADING
\* leaves LOADING only by the success continuation of a fetch.
C5_FetchFailure ==
  [][ /\ lastOp'.op = "reject" =>
           /\ logged' = logged + 1
           /\ hide' = hide /\ data' = data /\ table' = table
      /\ (InLoading /\ ~InLoading') =>
           /\ lastOp'.op = "resolve" /\ ~Throws(Responses[lastOp'.rix])
           /\ InView' ]_vars

\* C5 witness: the only fetch of a block in LOADING failed; nothing is in
\* flight and the block still shows the loading indicator.
C5_Witness ==
  /\ lastOp.op = "reject" /\ InLoading /\ inflight = {}
  /\ issued = 1 /\ logged = 1

\* C6 as stated: a 'pattern' paste event carrying the text t leaves the block
\* as an input event whose text t matches does: data.snippet is t, the block
\* shows LOADING, and the newest fetch in flight is the one for t.
C6_PasteLikeInput ==
  lastOp.op = "paste:pattern" =>
    /\ data.snippet = Some(lastOp.text)
    /\ InLoading
    /\ [id |-> issued, url |-> lastOp.text] \in inflight

\* C7 as stated: data.snippet is the text of the most recent match that
\* triggered a remote load on this block, and it is null exactly when no load
\* was ever triggered and the persisted data recorded none.
C7_SnippetIsLastLoad ==
  /\ lastLoad # Null => data.snippet = lastLoad
  /\ data.snippet = Null <=>
       (lastLoad = Null /\ (arg = Null \/ ~Truthy(Val(arg).snippet)))

\* a block constructed from the save() result s and rendered saves s again
C8_SavesAgain(s) ==
  LET d2 == constructor(Some(s))
  IN  saveOf(d2, renderTable(d2, 1)) = s

\* C8 as stated: for any BlockData d given to the constructor, render() and
\* then save() with nothing in between returns a BlockData equal to d, and a
\* block constructed from that result saves the same value again.
C8_Original ==
  [][ (lastOp.op = "render" /\ lastOp'.op = "save" /\ arg # Null) =>
        /\ saved' = arg
        /\ C8_SavesAgain(Val(saved')) ]_vars

\* C8 amended: for any BlockData d given to the constructor, render() and then
\* save() with nothing in between returns a BlockData equal to d when
\* d.snippet is null or a non-empty string, and equal to d with snippet null
\* when d.snippet is the empty string; and a block constructed from that
\* result saves the same value again.
C8_RoundTrip ==
  [][ (lastOp.op = "render" /\ lastOp'.op = "save" /\ arg # Null) =>
        /\ Val(arg).snippet # Some("") => saved' = arg
        /\ Val(arg).snippet = Some("") =>
             Val(saved') = [Val(arg) EXCEPT !.snippet = Null]
        /\ C8_SavesAgain(Val(saved')) ]_vars

\* C8 witness: save() has returned for a block with headings, a grid and a
\* snippet, all as persisted.
C8_Witness ==
  /\ lastOp.op = "save" /\ issued = 0 /\ tables = 1
  /\ arg = Some(BlockData(TRUE, SavedGrid, Some("http://x")))
  /\ saved = arg

\* C9: for a response with n entries prepareTableData returns n + 2 rows of 5
\* columns: the fixed header row, then one row per entry in the order of the
\* entries, [story_name, label of minutes_spent, notes, '$' per_hour,
\* '$' entry billing], and last the bold Total row.
C9_TableLayout ==
  lastOp.op = "prepareTableData" =>
    LET es == Val(response.entries)
        p  == Val(response.per_hour)
        n  == Len(es)
    IN  /\ Len(tableData) = n + 2
        /\ \A i \in 1..(n + 2) : Len(tableData[i]) = 5
        /\ tableData[1] =
             <<"Work Details", "Billable time", "Note", "Billing (/hr)", "Total Billing">>
        /\ \A i \in 1..n :
             tableData[i + 1] =
               << es[i].story_name, minutesToLabel(Some(es[i].minutes_spent)), es[i].notes,
                  "$" \o ToString(p),
                  "$" \o NumberToString(BillCents(es[i].minutes_spent, p)) >>
        /\ tableData[n + 2] =
             << "<b>Total</b>",
                "<b>" \o minutesToLabel(Some(SumMinutes(es))) \o "</b>",
                "", "",
                "<b>$" \o NumberToString(BillCents(SumMinutes(es), p)) \o "</b>" >>

\* C9 witness: the rows of {entries: [{A, 60, x}], per_hour: 10}.
C9_Witness ==
  /\ lastOp.op = "prepareTableData"
  /\ response = Response(Some(<<Entry("A", 60, "x")>>), Some(10))
  /\ tableData =
       << <<"Work Details", "Billable time", "Note", "Billing (/hr)", "Total Billing">>,
          <<"A", "1 hours", "x", "$10", "$10">>,
          <<"<b>Total</b>", "<b>1 hours</b>", "", "", "<b>$10</b>">> >>

RECURSIVE C10_Sum(_)
\* the sum of the entries' minutes_spent, from the first entry on
C10_Sum(es) == IF es = <<>> THEN 0 ELSE Head(es).minutes_spent + C10_Sum(Tail(es))

\* round2(num / den) in cents: the k with k - 1/2 <= 100 * num / den < k + 1/2
C10_Round2(num, den) ==
  CHOOSE k \in 0..((100 * num) \div den + 1) :
    (2 * k - 1) * den <= 200 * num /\ 200 * num < (2 * k + 1) * den

\* C10: for non-negative integer minutes and per_hour, the Total row shows
\* the sum of the entries' minutes, its billing is round2(total minutes *
\* per_hour / 60), and each entry row's billing is round2(entry minutes *
\* per_hour / 60), round2 rounding half up to 2 decimals.
C10_TotalsAndRounding ==
  lastOp.op = "prepareTableData" =>
    LET es == Val(response.entries)
        p  == Val(response.per_hour)
        n  == Len(es)
    IN  /\ tableData[n + 2][2] = "<b>" \o minutesToLabel(Some(C10_Sum(es))) \o "</b>"
        /\ tableData[n + 2][5] =
             "<b>$" \o NumberToString(C10_Round2(C10_Sum(es) * p, 60)) \o "</b>"
        /\ \A i \in 1..n :
             tableData[i + 1][5] =
               "$" \o NumberToString(C10_Round2(es[i].minutes_spent * p, 60))

\* C10 witness: 1 and 2 minutes at 7 per hour: 0.1167 rounds up to 0.12,
\* 0.2333 rounds down to 0.23, and the total of 3 minutes is 0.35.
C10_Witness ==
  /\ lastOp.op = "prepareTableData"
  /\ response.per_hour = Some(7) /\ Len(Val(response.entries)) = 2
  /\ tableData[2][5] = "$0.12" /\ tableData[3][5] = "$0.23"
  /\ tableData[4] = <<"<b>Total</b>", "<b>3 minutes</b>", "", "", "<b>$0.35</b>">>

\* C11: minutesToLabel(m) is "" when m is null or 0; otherwise, with
\* (h, r) = minutesToHoursMinutes(m), it is "<r> minutes" when h is 0,
\* "<h> hours" when r is 0 and "<h>h:<r>m" in every other case; for every
\* positive m exactly one of the three cases applies and the label is not "".
C11_Label ==
  label # Null =>
    IF minutes = Null THEN Val(label) = ""
    ELSE LET m == Val(minutes)
             h == minutesToHoursMinutes(m)[1]
             r == minutesToHoursMinutes(m)[2]
         IN  /\ m = 0 => Val(label) = ""
             /\ (m # 0 /\ h = 0) => Val(label) = ToString(r) \o " minutes"
             /\ (m # 0 /\ h # 0 /\ r = 0) => Val(label) = ToString(h) \o " hours"
             /\ (m # 0 /\ h # 0 /\ r # 0) =>
                  Val(label) = ToString(h) \o "h:" \o ToString(r) \o "m"
             /\ m > 0 =>
                  /\ Val(label) # ""
                  /\ Cardinality({ c \in {"minutes", "hours", "h:m"} :
                       \/ c = "minutes" /\ Val(label) = ToString(m) \o " minutes" /\ m < 60
                       \/ c = "hours" /\ Val(label) = ToString(m \div 60) \o " hours"
                                      /\ m % 60 = 0
                       \/ c = "h:m" /\ m > 60 /\ m % 60 # 0
                                    /\ Val(label) =
                                         ToString(m \div 60) \o "h:" \o ToString(m % 60) \o "m"
                     }) = 1
             /\ m = 45 => Val(label) = "45 minutes"
             /\ m = 60 => Val(label) = "1 hours"
             /\ m = 90 => Val(label) = "1h:30m"
             /\ m = 120 => Val(label) = "2 hours"

\* C11 witness: the label of 60 minutes is "1 hours".
C11_Witness == minutes = Some(60) /\ label = Some("1 hours")

\* C12: for every non-negative integer m, minutesToHoursMinutes(m) is a pair
\* (h, r) with h * 60 + r = m and 0 <= r < 60.
C12_HoursMinutes ==
  (hoursMinutes # Null /\ Val(minutes) >= 0) =>
    LET h == Val(hoursMinutes)[1]
        r == Val(hoursMinutes)[2]
    IN  h * 60 + r = Val(minutes) /\ 0 <= r /\ r < 60

\* C12 witness: 125 minutes are 2 hours and 5 minutes.
C12_Witness == minutes = Some(125) /\ hoursMinutes = Some(<<2, 5>>)

\* C13: the settings control has exactly two tunes; a click on 'With headings'
\* sets data.withHeadings to true and one on 'Without headings' sets it to
\* false, whatever it was before (so a second click on the same tune changes
\* nothing), the click passes the new value to the table view and changes
\* nothing else of the data, and a save() that follows returns that value.
C13_ToggleTune ==
  [][ /\ lastOp'.op = "toggleTune" =>
           /\ Cardinality(Tunes) = 2 /\ lastOp'.text \in Tunes
           /\ data'.withHeadings = (lastOp'.text = "With headings")
           /\ data' = [data EXCEPT !.withHeadings = data'.withHeadings]
           /\ table' = [table EXCEPT !.headings = Some(data'.withHeadings)]
           /\ lastOp.op = "toggleTune" /\ lastOp.text = lastOp'.text =>
                data' = data /\ table' = table
      /\ (lastOp.op = "toggleTune" /\ lastOp'.op = "save") =>
           Val(saved').withHeadings = (lastOp.text = "With headings") ]_vars

\* C13 witness: save() returned withHeadings false for a block whose table was
\* loaded (which had set withHeadings to true) and the view was told so.
C13_Witness ==
  /\ lastOp.op = "save" /\ tables = 2
  /\ Val(saved).withHeadings = FALSE /\ table.headings = Some(FALSE)

\* C14: a second request may be issued while one is in flight, and whenever a
\* fetch resolves successfully the table content is the one derived from its
\* response, so after two overlapping fetches the content is that of the
\* response that resolved last, whichever request was issued last.
C14_LastResolvedWins ==
  /\ Cardinality(inflight) <= issued
  /\ (lastOp.op = "resolve" /\ ~Throws(Responses[lastOp.rix])) =>
       /\ data.content = prepareTableData(Responses[lastOp.rix])
       /\ getData(table) = prepareTableData(Responses[lastOp.rix])

\* C14 witness: request 2 was issued while request 1 was in flight and
\* resolved first, with the second response; request 1 resolved last, with the
\* first response, and the table shows the first response.
C14_Witness ==
  /\ lastOp.op = "resolve" /\ lastOp.fid = 1 /\ lastOp.rix = 1
  /\ issued = 2 /\ inflight = {} /\ logged = 0 /\ tables = 3
  /\ getData(table) = prepareTableData(Responses[1])
  /\ getData(table) # prepareTableData(Responses[2])

\* C15: destroy() leaves the fetches in flight as they are, and the success
\* continuation of a fetch that resolves after destroy() still writes
\* data.content and data.withHeadings, builds a new table view and shows the
\* table holder.
C15_DestroyKeepsFetches ==
  [][ /\ lastOp'.op = "destroy" =>
           inflight' = inflight /\ data' = data /\ hide' = hide
      /\ (destroyed /\ lastOp'.op = "resolve" /\ ~Throws(Responses[lastOp'.rix])) =>
           /\ data'.content = prepareTableData(Responses[lastOp'.rix])
           /\ data'.withHeadings
           /\ table'.id = tables + 1 /\ ~table'.destroyed
           /\ InView' ]_vars

\* C15 witness: a block destroyed while in LOADING whose fetch then resolved:
\* it holds a new table view, not destroyed, and shows it.
C15_Witness ==
  /\ destroyed /\ lastOp.op = "resolve" /\ lastOp.rix = 1
  /\ arg = Null /\ data.snippet = Some("http://x")
  /\ table.id = 2 /\ ~table.destroyed /\ InView
  /\ data.content = prepareTableData(Responses[1]) /\ data.withHeadings

\* C16 as stated: a response that lacks entries or lacks per_hour is neither
\* handled like a fetch failure (logged by the catch handler) nor rendered as
\* a table: the fault leaves the continuation unhandled.
C16_Original ==
  [][ (lastOp'.op = "resolve" /\ ~WellFormed(Responses[lastOp'.rix])) =>
        /\ logged' = logged
        /\ data' = data /\ table' = table /\ hide' = hide ]_vars

\* C16 amended: no validation rejects a malformed response. One that lacks
\* entries makes the success continuation throw, and the catch handler of the
\* same chain handles it like a fetch failure: it is logged and data, table
\* view and shown region stay as they were. One that lacks only per_hour
\* throws nothing: its table is rendered, with '$undefined' as the rate and
\* '$NaN' as every billing.
C16_Malformed ==
  [][ (lastOp'.op = "resolve" /\ ~WellFormed(Responses[lastOp'.rix])) =>
        IF Responses[lastOp'.rix].entries = Null
          THEN /\ logged' = logged + 1
               /\ data' = data /\ table' = table /\ tables' = tables /\ hide' = hide
          ELSE /\ logged' = logged
               /\ lastOp'.rix = 4
               /\ data'.content =
                    << <<"Work Details", "Billable time", "Note", "Billing (/hr)",
                         "Total Billing">>,
                       <<"A", "1 hours", "x", "$undefined", "$NaN">>,
                       <<"<b>Total</b>", "<b>1 hours</b>", "", "", "<b>$NaN</b>">> >>
               /\ data'.withHeadings
               /\ table' = Table(tables + 1, data')
               /\ InView' ]_vars

\* C16 witness: the only fetch of a block in LOADING resolved with a body
\* without entries: the error was logged and the block is still in LOADING.
C16_Witness ==
  /\ lastOp.op = "resolve" /\ lastOp.rix = 3
  /\ issued = 1 /\ inflight = {} /\ logged = 1 /\ tables = 1 /\ InLoading

\* C17: the number of requests issued so far equals the number of matching
\* input events plus the number of 'pattern' paste events so far: each issues
\* exactly one request, a failed request is not issued again and a paste event
\* of another type issues none; every request is in flight or was settled once.
C17_OneRequestPerTrigger ==
  /\ issued = triggers
  /\ Cardinality(inflight) <= issued
  /\ \A f \in inflight : f.id \in 1..issued
  /\ \A f, g \in inflight : f.id = g.id => f = g
  /\ logged <= issued - Cardinality(inflight)

\* C17 witness: two requests were issued and both failed; a paste event of
\* another type followed and nothing is in flight.
C17_Witness ==
  /\ lastOp.op = "paste:tag" /\ issued = 2 /\ triggers = 2
  /\ logged = 2 /\ inflight = {}

\* C18 as stated: when save() is called in VIEW, a block constructed from the
\* returned data and rendered shows the table too, with the same content.
C18_ViewSurvivesReload ==
  (lastOp.op = "save" /\ InView) =>
    LET d2 == constructor(saved)
    IN  /\ Holders \ renderHide(d2) = {"tableHolder"}
        /\ getData(renderTable(d2, 1)) = getData(table)

\* C19 as stated: after render() the headings value last passed to the table
\* view the controller holds through setHeadingsSetting is data.withHeadings.
C19_HeadingsPassed ==
  pc = "rendered" => table.headings = Some(data.withHeadings)

\* C20: once the block shows LOADING or VIEW it never shows the input again,
\* once data.snippet is non-null it is never null again, and a failed fetch
\* leaves data.content, data.withHeadings, data.snippet and the table view as
\* they were.
C20_NoWayBack ==
  [][ /\ (pc = "rendered" /\ ~InEdit) => ~InEdit'
      /\ data.snippet # Null => data'.snippet # Null
      /\ lastOp'.op = "reject" => (data' = data /\ table' = table /\ tables' = tables) ]_vars

\* C20 witness: a fetch failed on a block that shows the table of an earlier
\* fetch and holds the snippet of the later one.
C20_Witness ==
  /\ lastOp.op = "reject" /\ lastOp.fid = 2 /\ InView /\ tables = 2
  /\ data.snippet = Some("http://y") /\ logged = 1
  /\ data.content = prepareTableData(Responses[2])

====
